---- MODULE Spec2Model ----
(***************************************************************************)
(* TextReader (src/parsing/text_reader.rs): a Read adaptor that pulls      *)
(* bytes from a BufRead source, feeds them to an encoding_rs Decoder and   *)
(* writes UTF-8 into the caller's buffer.                                  *)
(*                                                                         *)
(* The reader's state is {inner, decoder, eof}.  One read call is a loop;  *)
(* the model has one action per loop iteration (fill + decode + consume,   *)
(* and the return when the iteration breaks), plus the entry of the call.  *)
(*                                                                         *)
(* The decoder is the one `charset.new_decoder()` builds (encoding_rs      *)
(* 0.8, BOM sniffing enabled): the UTF-8 decoder and the single-byte       *)
(* decoder with the windows-1252 table, under Decoder::decode_to_utf8      *)
(* (replacement of malformed sequences by U+FFFD).  The decoder holds no   *)
(* pending output: what does not fit the output slice is not read.         *)
(***************************************************************************)
EXTENDS Integers, Sequences, FiniteSets, TLC

\* ------------------------------------------------------------------ bounds
\* longest input byte sequence handed to the source
MaxLen == 3
\* largest output buffer a caller passes to read
MaxBuf == 5
\* how many times the source's fill may fail over a reader's life
MaxFail == 1

\* The input alphabet: 'q' (ASCII), 0xC9 (a UTF-8 two-byte lead, E-acute in
\* windows-1252), 0xEF 0xBB 0xBF (the UTF-8 BOM; 0xEF is a three-byte lead,
\* 0xBB and 0xBF are continuation bytes).  0xFE and 0xFF, which start the
\* UTF-16 BOMs, are outside it, so the decoder never morphs to UTF-16.
Bytes == {113, 201, 239, 187, 191}

Charsets == {"UTF_8", "WINDOWS_1252"}

Min(a, b) == IF a < b THEN a ELSE b

RECURSIVE SeqsUpTo(_)
SeqsUpTo(n) ==
    IF n = 0 THEN {<< >>}
    ELSE LET S == SeqsUpTo(n - 1)
         IN  S \cup {Append(s, b) : s \in {t \in S : Len(t) = n - 1}, b \in Bytes}

Inputs == SeqsUpTo(MaxLen)

Drop(s, n) == SubSeq(s, n + 1, Len(s))

\* ------------------------------------------------------- UTF-8 primitives
\* Utf8Destination::write_ascii / write_bmp_excl_ascii / write_astral
EncodeUtf8(cp) ==
    IF cp < 128 THEN << cp >>
    ELSE IF cp < 2048 THEN << 192 + (cp \div 64), 128 + (cp % 64) >>
    ELSE IF cp < 65536 THEN
        << 224 + (cp \div 4096), 128 + ((cp \div 64) % 64), 128 + (cp % 64) >>
    ELSE << 240 + (cp \div 262144), 128 + ((cp \div 4096) % 64),
            128 + ((cp \div 64) % 64), 128 + (cp % 64) >>

\* the replacement character U+FFFD as decode_to_utf8 writes it: EF BF BD
Replacement == << 239, 191, 189 >>

IsCont(b) == b >= 128 /\ b <= 191

\* length of the well-formed UTF-8 sequence at s[k], 0 when s[k..] starts
\* with an ill-formed or truncated sequence
Utf8CharLen(s, k) ==
    LET b == s[k]
        n == Len(s) - k + 1
    IN  IF b < 128 THEN 1
        ELSE IF b < 194 THEN 0
        ELSE IF b < 224 THEN
            IF n >= 2 /\ IsCont(s[k + 1]) THEN 2 ELSE 0
        ELSE IF b < 240 THEN
            IF /\ n >= 3
               /\ s[k + 1] >= (IF b = 224 THEN 160 ELSE 128)
               /\ s[k + 1] <= (IF b = 237 THEN 159 ELSE 191)
               /\ IsCont(s[k + 2])
            THEN 3 ELSE 0
        ELSE IF b < 245 THEN
            IF /\ n >= 4
               /\ s[k + 1] >= (IF b = 240 THEN 144 ELSE 128)
               /\ s[k + 1] <= (IF b = 244 THEN 143 ELSE 191)
               /\ IsCont(s[k + 2])
               /\ IsCont(s[k + 3])
            THEN 4 ELSE 0
        ELSE 0

\* utf8_valid_up_to: length of the longest prefix of s that is whole
\* well-formed UTF-8 sequences
RECURSIVE ValidFrom(_, _)
ValidFrom(s, k) ==
    IF k > Len(s) THEN Len(s)
    ELSE LET n == Utf8CharLen(s, k)
         IN  IF n = 0 THEN k - 1 ELSE ValidFrom(s, k + n)

Utf8ValidUpTo(s) == ValidFrom(s, 1)

\* ------------------------------------------------ decoder state (variant)
\* encoding_rs Utf8Decoder fields; the single-byte decoder has no state.
FreshVariant(enc) ==
    [enc |-> enc, need |-> 0, seen |-> 0, cp |-> 0, lo |-> 128, hi |-> 191]

\* Encoding::new_decoder(): BOM sniffing enabled, life cycle AtStart
NewDecoder(cs) == [life |-> "AtStart", v |-> FreshVariant(cs)]

Raw(r, read, out, v) == [r |-> r, read |-> read, out |-> out, v |-> v]

\* --------------------------------------------- Utf8Decoder, to UTF-8, raw
\* decoder_functions! loop: fast path, source check (EOF block), destination
\* check (check_space_astral: 4 free bytes), one byte through the state
\* machine.  i = bytes of src read, w = bytes written, dlen = dst.len().

\* Utf8Destination::copy_utf8_up_to_invalid_from, run when no sequence is
\* pending: how many bytes of src[i..] are copied to dst[Len(w)..]
FastPath(v, src, i, w, dlen) ==
    IF v.need = 0
    THEN Utf8ValidUpTo(SubSeq(src, i + 1, i + Min(Len(src) - i, dlen - Len(w))))
    ELSE 0

RECURSIVE Utf8Raw(_, _, _, _, _, _)

\* the loop after the fast path
Utf8Step(v, src, i, w, dlen, last) ==
    IF i = Len(src) THEN
        IF last /\ v.need # 0
        \* the end-of-input arm clears the sequence, not the boundaries
        THEN Raw("Malformed", i, w, [v EXCEPT !.need = 0, !.seen = 0, !.cp = 0])
        ELSE Raw("InputEmpty", i, w, v)
    ELSE IF ~(Len(w) + 3 < dlen) THEN
        Raw("OutputFull", i, w, v)
    ELSE
        LET b == src[i + 1] IN
        IF v.need = 0 THEN
            IF b < 128 THEN
                Utf8Raw(v, src, i + 1, Append(w, b), dlen, last)
            ELSE IF b < 194 THEN
                Raw("Malformed", i + 1, w, v)
            ELSE IF b < 224 THEN
                Utf8Raw([v EXCEPT !.need = 1, !.cp = b % 32],
                        src, i + 1, w, dlen, last)
            ELSE IF b < 240 THEN
                Utf8Raw([v EXCEPT !.need = 2, !.cp = b % 16,
                                  !.lo = IF b = 224 THEN 160 ELSE v.lo,
                                  !.hi = IF b = 237 THEN 159 ELSE v.hi],
                        src, i + 1, w, dlen, last)
            ELSE IF b < 245 THEN
                Utf8Raw([v EXCEPT !.need = 3, !.cp = b % 8,
                                  !.lo = IF b = 240 THEN 144 ELSE v.lo,
                                  !.hi = IF b = 244 THEN 143 ELSE v.hi],
                        src, i + 1, w, dlen, last)
            ELSE
                Raw("Malformed", i + 1, w, v)
        ELSE IF ~(b >= v.lo /\ b <= v.hi) THEN
            \* the offending byte is unread
            Raw("Malformed", i, w, FreshVariant(v.enc))
        ELSE IF v.seen + 1 # v.need THEN
            Utf8Raw([v EXCEPT !.cp = v.cp * 64 + (b % 64), !.seen = v.seen + 1,
                              !.lo = 128, !.hi = 191],
                    src, i + 1, w, dlen, last)
        ELSE
            Utf8Raw(FreshVariant(v.enc), src, i + 1,
                    w \o EncodeUtf8(v.cp * 64 + (b % 64)), dlen, last)

Utf8Raw(v, src, i, w, dlen, last) ==
    Utf8Step(v, src,
             i + FastPath(v, src, i, w, dlen),
             w \o SubSeq(src, i + 1, i + FastPath(v, src, i, w, dlen)),
             dlen, last)

\* ---------------------------------------- SingleByteDecoder, to UTF-8, raw
\* WINDOWS_1252 table, 0x80..0x9F; 0xA0..0xFF map to themselves
Windows1252High ==
    << 8364, 129, 8218, 402, 8222, 8230, 8224, 8225,
       710, 8240, 352, 8249, 338, 141, 381, 143,
       144, 8216, 8217, 8220, 8221, 8226, 8211, 8212,
       732, 8482, 353, 8250, 339, 157, 382, 376 >>

Windows1252Map(b) == IF b >= 160 THEN b ELSE Windows1252High[b - 127]

\* number of leading ASCII bytes among src[i+1 .. i+n]
RECURSIVE AsciiRun(_, _, _)
AsciiRun(src, i, n) ==
    IF n = 0 \/ src[i + 1] >= 128 THEN 0 ELSE 1 + AsciiRun(src, i + 1, n - 1)

RECURSIVE SbOuter(_, _, _, _, _)
RECURSIVE SbMiddle(_, _, _, _, _, _)
RECURSIVE SbInner(_, _, _, _, _, _)

\* copy_ascii_from_check_space_bmp after its ASCII run of k bytes out of the
\* length it could copy
SbAfterAscii(v, src, i0, w0, dlen, length, k) ==
    IF k = length THEN
        Raw(IF dlen - Len(w0) < Len(src) - i0 THEN "OutputFull" ELSE "InputEmpty",
            i0 + k, w0 \o SubSeq(src, i0 + 1, i0 + k), v)
    ELSE IF Len(w0) + k + 2 < dlen THEN
        SbMiddle(v, src, i0 + k + 1, w0 \o SubSeq(src, i0 + 1, i0 + k), dlen,
                 src[i0 + k + 1])
    ELSE
        Raw("OutputFull", i0 + k, w0 \o SubSeq(src, i0 + 1, i0 + k), v)

\* 'outermost: copy_ascii_from_check_space_bmp
SbOuter(v, src, i0, w0, dlen) ==
    SbAfterAscii(v, src, i0, w0, dlen,
                 Min(Len(src) - i0, dlen - Len(w0)),
                 AsciiRun(src, i0, Min(Len(src) - i0, dlen - Len(w0))))

\* after write_bmp_excl_ascii: source check, check_space_bmp, read
SbAfterWrite(v, src, i, w, dlen) ==
    IF i = Len(src) THEN Raw("InputEmpty", i, w, v)
    ELSE IF ~(Len(w) + 2 < dlen) THEN Raw("OutputFull", i, w, v)
    ELSE SbInner(v, src, i + 1, w, dlen, src[i + 1])

\* 'middle: table lookup and write_bmp_excl_ascii of the byte b (already read)
SbMiddle(v, src, i, w0, dlen, b) ==
    SbAfterWrite(v, src, i, w0 \o EncodeUtf8(Windows1252Map(b)), dlen)

\* 'innermost: the byte b after a non-ASCII one (already read, space checked)
SbInner(v, src, i, w0, dlen, b) ==
    IF b > 127 THEN SbMiddle(v, src, i, w0, dlen, b)
    ELSE IF b < 60 THEN SbAfterWrite(v, src, i, Append(w0, b), dlen)
    ELSE SbOuter(v, src, i, Append(w0, b), dlen)

\* VariantDecoder::decode_to_utf8_raw
VariantRaw(v, src, dlen, last) ==
    IF v.enc = "UTF_8" THEN Utf8Raw(v, src, 0, << >>, dlen, last)
    ELSE SbOuter(v, src, 0, << >>, dlen)

\* ------------------------------------------- Decoder life cycle (BOM sniff)
\* A decoder call's outcome: r is "InputEmpty", "OutputFull", "Malformed"
\* (inside the decoder only) or "Panic"; read = bytes of src read; out = the
\* bytes written to dst; d = the decoder afterwards.
Res(r, read, out, d) == [r |-> r, read |-> read, out |-> out, d |-> d]

Panic(d) == Res("Panic", 0, << >>, d)

\* the life cycle after the variant decoder returned x: Finished once the
\* last call reports InputEmpty
Ended(d, last, offset, x) ==
    Res(x.r, x.read + offset, x.out,
        [life |-> IF last /\ x.r = "InputEmpty" THEN "Finished" ELSE d.life,
         v    |-> x.v])

\* decode_to_utf8_checking_end_with_offset (offset 0: .._checking_end)
CheckingEndWithOffset(d, src, dlen, last, offset) ==
    Ended(d, last, offset, VariantRaw(d.v, Drop(src, offset), dlen, last))

CheckingEnd(d, src, dlen, last) == CheckingEndWithOffset(d, src, dlen, last, 0)

\* x, the outcome on src, after `first`, the outcome on the held bytes
Joined(first, x) == Res(x.r, x.read, first.out \o x.out, x.d)

\* what follows the variant decoder's outcome `first` on the held bytes
AfterFirst(d, held, src, dlen, last, first) ==
    IF first.r = "InputEmpty" THEN
        Joined(first, CheckingEnd([d EXCEPT !.v = first.v], src,
                                  dlen - Len(first.out), last))
    ELSE IF first.r = "Malformed" THEN
        Res("Malformed", 0, first.out,
            [life |-> IF Len(held) = 2 /\ first.read = 1
                      THEN "ConvertingWithPendingBB" ELSE d.life,
             v    |-> first.v])
    ELSE \* panic!("Output buffer must have been too small.")
        Panic([d EXCEPT !.v = first.v])

\* the bytes of a potential BOM seen in an earlier call are pushed through
\* the variant decoder first, then src follows
AfterHeldBytes(d, held, src, dlen, last) ==
    AfterFirst(d, held, src, dlen, last, VariantRaw(d.v, held, dlen, FALSE))

\* decode_to_utf8_after_one_potential_bom_byte
AfterOnePotentialBomByte(d0, src, dlen, last, offset) ==
    LET d == [d0 EXCEPT !.life = "Converting"]
    IN  IF offset = 0 THEN AfterHeldBytes(d, << 239 >>, src, dlen, last)
        ELSE CheckingEnd(d, src, dlen, last)

\* decode_to_utf8_after_two_potential_bom_bytes
AfterTwoPotentialBomBytes(d0, src, dlen, last, offset) ==
    LET d == [d0 EXCEPT !.life = "Converting"]
    IN  IF offset = 0 THEN AfterHeldBytes(d, << 239, 187 >>, src, dlen, last)
        ELSE IF offset = 1 THEN AfterHeldBytes(d, << 239 >>, src, dlen, last)
        ELSE CheckingEnd(d, src, dlen, last)

\* Decoder::decode_to_utf8_without_replacement: the life-cycle loop
RECURSIVE WithoutReplacement(_, _, _, _, _)
WithoutReplacement(d, src, dlen, last, offset) ==
    CASE d.life = "Converting" -> CheckingEnd(d, src, dlen, last)
      [] d.life = "AtStart" ->
            IF src = << >> THEN Res("InputEmpty", 0, << >>, d)
            ELSE IF src[1] = 239 THEN
                WithoutReplacement([d EXCEPT !.life = "SeenUtf8First"],
                                   src, dlen, last, offset + 1)
            ELSE
                WithoutReplacement([d EXCEPT !.life = "Converting"],
                                   src, dlen, last, offset)
      [] d.life = "SeenUtf8First" ->
            IF offset >= Len(src) THEN
                IF last THEN AfterOnePotentialBomByte(d, src, dlen, last, offset)
                ELSE Res("InputEmpty", offset, << >>, d)
            ELSE IF src[offset + 1] = 187 THEN
                WithoutReplacement([d EXCEPT !.life = "SeenUtf8Second"],
                                   src, dlen, last, offset + 1)
            ELSE AfterOnePotentialBomByte(d, src, dlen, last, offset)
      [] d.life = "SeenUtf8Second" ->
            IF offset >= Len(src) THEN
                IF last THEN AfterTwoPotentialBomBytes(d, src, dlen, last, offset)
                ELSE Res("InputEmpty", offset, << >>, d)
            ELSE IF src[offset + 1] = 191 THEN
                \* a BOM: the decoder becomes (or stays) the UTF-8 decoder
                CheckingEndWithOffset(
                    [life |-> "Converting",
                     v    |-> IF d.v.enc = "UTF_8" THEN d.v
                              ELSE FreshVariant("UTF_8")],
                    src, dlen, last, offset + 1)
            ELSE AfterTwoPotentialBomBytes(d, src, dlen, last, offset)
      [] d.life = "Finished" ->
            \* panic!("Must not use a decoder that has finished.")
            Panic(d)

\* Decoder::decode_to_utf8: malformed sequences become U+FFFD, written to
\* dst[total_written..] without a space check (index panic when short)
RECURSIVE Utf8WithReplacement(_, _, _, _, _, _)

\* the match on the outcome x of decode_to_utf8_without_replacement
Replaced(d, src, dlen, last, total_read, w, x) ==
    IF x.r = "Panic" THEN Panic(x.d)
    ELSE IF x.r = "Malformed" THEN
        IF Len(w) + Len(x.out) + 3 > dlen THEN Panic(x.d)
        ELSE Utf8WithReplacement(x.d, src, dlen, last, total_read + x.read,
                                 w \o x.out \o Replacement)
    ELSE Res(x.r, total_read + x.read, w \o x.out, x.d)

Utf8WithReplacement(d, src, dlen, last, total_read, w) ==
    Replaced(d, src, dlen, last, total_read, w,
             WithoutReplacement(d, Drop(src, total_read), dlen - Len(w), last, 0))

\* ------------------------------------------------ the decoder as a contract
\* A decoder of another charset, known only by the contract of
\* decode_to_utf8: it reads at most what it is offered, writes at most what
\* fits, reports InputEmpty only when it read all of src, and may report
\* OutputFull at any point, the final call included.  Its whole output is
\* bounded by MaxExpand bytes per input byte plus MaxExpand at the end.
MaxExpand == 2

ContractDecoder == [life |-> "Converting",
                    v    |-> [enc |-> "CONTRACT", credit |-> MaxExpand]]

ContractResults(d, src, dlen, last) ==
    IF d.life = "Finished" THEN { Panic(d) }
    ELSE
    { Res(c.r, c.rd, [i \in 1..c.wr |-> 63],
          [life |-> IF last /\ c.r = "InputEmpty" THEN "Finished" ELSE d.life,
           v    |-> [d.v EXCEPT !.credit = d.v.credit + MaxExpand * c.rd - c.wr]]) :
        c \in { c \in [r : {"InputEmpty", "OutputFull"},
                       rd : 0..Len(src), wr : 0..dlen] :
                  /\ c.r = "InputEmpty" => c.rd = Len(src)
                  /\ c.wr <= d.v.credit + MaxExpand * c.rd } }

\* self.decoder.decode_to_utf8(src, buf, is_final): the possible outcomes
DecodeToUtf8(d, src, dlen, last) ==
    IF d.v.enc = "CONTRACT" THEN ContractResults(d, src, dlen, last)
    ELSE { Utf8WithReplacement(d, src, dlen, last, 0, << >>) }

\* ------------------------------------------------------------- the reader
VARIABLES
    charset,        \* the Charset given to TextReader::new
    input,          \* all the bytes the source will ever deliver
    pos,            \* inner: bytes consumed so far
    avail,          \* inner: bytes buffered beyond pos (what fill_buf shows)
    fails,          \* inner: fills that have failed so far
    decoder,        \* self.decoder
    eof,            \* self.eof
    pc,             \* "idle" (between calls), "loop" (in read)
    cap,            \* read: buf.len() at entry
    buf,            \* read: length of the not yet written tail of buf
    total_written,  \* read: total_written
    written,        \* read: the bytes written into the caller's buffer
    ret,            \* what the last read call returned
    out,            \* the bytes the caller has received (ret counts applied)
    count,          \* sum of the counts returned by successful calls
    step,           \* history: what the last step did
    finalCalls,     \* history: decoder invocations with is_final = true
    decRead,        \* history: sum of the read counts the decoder reported
    emptied,        \* history: fill_buf showed an empty slice before the end
    iters,          \* history: times the loop of this call has gone round
    entryPos,       \* history: pos at the entry of this call
    err,            \* an HttpError value ("none" while there is none)
    text            \* what formatting err with Display wrote

readerVars ==
    << charset, input, pos, avail, fails, decoder, eof, pc, cap, buf,
       total_written, written, ret, out, count, step, finalCalls, decRead,
       emptied, iters, entryPos >>

vars == << readerVars, err, text >>

\* io::Error values a source may fail with
Errors == {"Interrupted", "BrokenPipe"}

\* finalCalls counts up to FinalCap: FinalCap means "FinalCap or more"
FinalCap == 2

BufSizes == 0..MaxBuf

\* TextReader::new
InitWith(cs, inp, dec) ==
    /\ charset = cs
    /\ input = inp
    /\ pos = 0
    /\ avail = 0
    /\ fails = 0
    /\ decoder = dec
    /\ eof = FALSE
    /\ pc = "idle"
    /\ cap = 0
    /\ buf = 0
    /\ total_written = 0
    /\ written = << >>
    /\ ret = [kind |-> "none"]
    /\ out = << >>
    /\ count = 0
    /\ step = [op |-> "new"]
    /\ finalCalls = 0
    /\ decRead = 0
    /\ emptied = FALSE
    /\ iters = 0
    /\ entryPos = 0

\* a reader is not an error: nothing to format
NoError == err = "none" /\ text = << >>

Init ==
    /\ \E cs \in Charsets, inp \in Inputs : InitWith(cs, inp, NewDecoder(cs))
    /\ NoError

\* the same reader over a decoder known only by its contract; the bytes'
\* values play no part there
ContractInputs == { [i \in 1..n |-> 113] : n \in 0..MaxLen }

InitContract ==
    /\ \E inp \in ContractInputs : InitWith("CONTRACT", inp, ContractDecoder)
    /\ NoError

Source == << charset, input >>

\* Ok(n) / Err(e) leaves read: the locals are gone
Return(r) ==
    /\ ret' = r
    /\ pc' = "idle"
    /\ cap' = 0
    /\ buf' = 0
    /\ total_written' = 0
    /\ written' = << >>
    /\ iters' = 0
    /\ entryPos' = 0

\* the caller receives the first n bytes of its buffer
Deliver(n, bytes) ==
    /\ out' = out \o SubSeq(bytes, 1, n)
    /\ count' = count + n

\* a reader without the early return
EofGuard_Never == FALSE

\* if self.eof { return Ok(0); }
EofGuard == eof

ReadEof ==
    /\ pc = "idle"
    /\ EofGuard
    /\ Return([kind |-> "ok", n |-> 0])
    /\ Deliver(0, << >>)
    /\ step' = [op |-> "eofReturn"]
    /\ UNCHANGED << Source, pos, avail, fails, decoder, eof, finalCalls, decRead,
                    emptied, err, text >>

\* entry of read(buf) with buf.len() = n, eof not set
ReadBegin(n) ==
    /\ pc = "idle"
    /\ ~EofGuard
    /\ pc' = "loop"
    /\ cap' = n
    /\ buf' = n
    /\ total_written' = 0
    /\ written' = << >>
    /\ iters' = 0
    /\ entryPos' = pos
    /\ step' = [op |-> "begin"]
    /\ UNCHANGED << Source, pos, avail, fails, decoder, eof, ret, out, count,
                    finalCalls, decRead, emptied, err, text >>

\* a reader that replaces the source's error by one of its own
Propagate_Replaced(e) == "BrokenPipe"

\* what Err(e) from fill_buf becomes at the `?`
Propagate(e) == e

\* self.inner.fill_buf()? fails: the call returns the error
FillErr(e) ==
    /\ pc = "loop"
    /\ avail = 0
    /\ fails < MaxFail
    /\ fails' = fails + 1
    /\ Return([kind |-> "err", e |-> Propagate(e)])
    /\ step' = [op |-> "fillErr", e |-> e]
    /\ UNCHANGED << Source, pos, avail, decoder, eof, out, count, finalCalls, decRead,
                    emptied, err, text >>

\* the decoder panicked inside read: the call unwinds.  The decoder keeps
\* the state d it had reached, the source the k bytes fill_buf showed (none
\* were consumed); a caller that catches the panic can call read again.
Unwind(d, k) ==
    /\ Return([kind |-> "panic"])
    /\ decoder' = d
    /\ avail' = k
    /\ UNCHANGED << pos, eof, out, count, decRead >>

\* a reader that sets eof after any final flush
EofAfterFinal_Always(res) == TRUE

\* a reader with the two match arms of the final flush swapped
EofAfterFinal_Swapped(res) == res = "OutputFull"

\* eof after the final flush reported res
EofAfterFinal(res) == res = "InputEmpty"

\* a reader that calls every decoder invocation the last one
IsFinal_Always(src) == TRUE

\* if src.is_empty(): the is_final argument of the decoder invocation
IsFinal(src) == Len(src) = 0

\* fill_buf showed an empty slice: the final flush, then break and return
Flush ==
    /\ pc = "loop"
    /\ avail = 0
    /\ finalCalls' = Min(finalCalls + 1, FinalCap)
    /\ \E x \in DecodeToUtf8(decoder, << >>, buf, IsFinal(<< >>)) :
         /\ step' = [op |-> "decode", final |-> IsFinal(<< >>), srcLen |-> 0,
                     res |-> x.r, read |-> x.read, wr |-> Len(x.out),
                     room |-> buf]
         /\ IF x.r = "Panic" THEN Unwind(x.d, 0)
            ELSE /\ decoder' = x.d
                 /\ eof' = (eof \/ EofAfterFinal(x.r))
                 /\ Return([kind |-> "ok", n |-> total_written + Len(x.out)])
                 /\ Deliver(total_written + Len(x.out), written \o x.out)
                 /\ UNCHANGED << pos, avail, decRead >>
    /\ UNCHANGED << Source, fails, err, text >>

\* src.is_empty() at the end of the source
FinalFlush ==
    /\ pos = Len(input)
    /\ Flush
    /\ UNCHANGED emptied

\* src.is_empty() over a source that shows an empty slice although bytes are
\* still to come
EmptyFill ==
    /\ pos < Len(input)
    /\ Flush
    /\ emptied' = TRUE

\* a reader that never consumes what the decoder read
ConsumeAmount_None(read, srclen) == 0

\* a reader that assumes the decoder read all it was offered
ConsumeAmount_All(read, srclen) == srclen

\* self.inner.consume(read) after a decode that was offered srclen bytes
ConsumeAmount(read, srclen) == read

\* a reader that hands the whole buffer to every decoder invocation
BufTail_Whole(room, w) == room

\* buf = &mut buf[written..]: the length of the tail left after w bytes
BufTail(room, w) == room - w

\* a reader that returns after every decode
BreakAfterDecode_Always(res) == TRUE

\* whether the loop stops after a non-final decode that reported res
BreakAfterDecode(res) == res = "OutputFull"

\* src is not empty: decode, consume, then continue or break and return.
\* k is what fill_buf shows: the buffered bytes, or a fresh chunk.
Decode ==
    /\ pc = "loop"
    /\ \E k \in 1..(Len(input) - pos) :
         /\ avail > 0 => k = avail
         /\ LET src == SubSeq(input, pos + 1, pos + k) IN
            \E x \in DecodeToUtf8(decoder, src, buf, IsFinal(src)) :
              /\ step' = [op |-> "decode", final |-> IsFinal(src), srcLen |-> k,
                          res |-> x.r, read |-> x.read, wr |-> Len(x.out),
                          room |-> buf]
              /\ IF x.r = "Panic" THEN Unwind(x.d, k)
                 ELSE /\ decoder' = x.d
                      /\ pos' = pos + ConsumeAmount(x.read, k)
                      /\ avail' = k - ConsumeAmount(x.read, k)
                      /\ decRead' = decRead + x.read
                      /\ IF BreakAfterDecode(x.r)
                         THEN /\ Return([kind |-> "ok", n |-> total_written + Len(x.out)])
                              /\ Deliver(total_written + Len(x.out), written \o x.out)
                         ELSE /\ total_written' = total_written + Len(x.out)
                              /\ written' = written \o x.out
                              /\ buf' = BufTail(buf, Len(x.out))
                              /\ iters' = iters + 1
                              /\ UNCHANGED << pc, cap, ret, out, count, entryPos >>
    /\ UNCHANGED << Source, fails, eof, finalCalls, emptied, err, text >>

Next ==
    \/ ReadEof
    \/ \E n \in BufSizes : ReadBegin(n)
    \/ \E e \in Errors : FillErr(e)
    \/ FinalFlush
    \/ Decode

Spec == Init /\ [][Next]_vars

SpecContract == InitContract /\ [][Next]_vars

\* the reader over every source, one that shows an empty slice and later
\* shows bytes again included
NextTransient ==
    \/ Next
    \/ EmptyFill

SpecTransient == Init /\ [][NextTransient]_vars

\* source lengths tried with the contract decoder over such a source
MaxLenTransient == 2

InitContractTransient ==
    /\ \E n \in 0..MaxLenTransient :
          InitWith("CONTRACT", [i \in 1..n |-> 113], ContractDecoder)
    /\ NoError

SpecContractTransient == InitContractTransient /\ [][NextTransient]_vars

\* ------------------------------------------------- reference computations
\* The whole input decoded in one piece into a buffer that cannot fill,
\* followed by the final flush.
BigBuf(inp) == 4 * Len(inp) + 8

FlushAfter(inp, a) ==
    a.out \o Utf8WithReplacement(a.d, << >>, BigBuf(inp) - Len(a.out), TRUE,
                                 0, << >>).out

OneShot(cs, inp) ==
    IF inp = << >> THEN << >>
    ELSE FlushAfter(inp, Utf8WithReplacement(NewDecoder(cs), inp, BigBuf(inp),
                                             FALSE, 0, << >>))

ValidUtf8(s) == Utf8ValidUpTo(s) = Len(s)

\* one byte per ASCII byte, C3 89 (U+00C9) per 0xC9 byte
RECURSIVE Expand1252(_)
Expand1252(s) ==
    IF s = << >> THEN << >>
    ELSE (IF s[1] = 201 THEN << 195, 137 >> ELSE << s[1] >>) \o Expand1252(Tail(s))

AsciiOrC9(s) == \A i \in 1..Len(s) : s[i] < 128 \/ s[i] = 201

\* a read call has just returned Ok(0) to a caller whose buffer was not empty
ReturnedZero ==
    /\ pc = "idle"
    /\ ret = [kind |-> "ok", n |-> 0]
    /\ step.op = "decode" => step.room >= 1

\* the last step invoked the decoder
Invoked == step.op = "decode"

\* --------------------------------------------------------------- HttpError
\* texts are sequences of characters; payload texts are drawn from these
MaxPayload == 2

PayloadChars == {"a", "(", ")"}

Payloads == UNION { [1..n -> PayloadChars] : n \in 0..MaxPayload }

\* enum HttpError, Tls and Json being there with their features
Variants == {"Io", "Http", "Tls", "InvalidUrl", "InvalidResponse",
             "DecodingError", "Other", "Json"}

\* an error of variant v whose payload displays as p
HttpErrors == [variant : Variants, payload : Payloads]

\* impl Display for HttpError: the write! of each match arm
Display(e) ==
    CASE e.variant = "Io" ->
           << "I", "o", "(" >> \o e.payload \o << ")" >>
      [] e.variant = "Http" ->
           << "H", "t", "t", "p", "(" >> \o e.payload \o << ")" >>
      [] e.variant = "Tls" ->
           << "T", "l", "s", "(" >> \o e.payload \o << ")" >>
      [] e.variant = "InvalidUrl" ->
           << "I", "n", "v", "a", "l", "i", "d", "U", "r", "l", "(" >>
               \o e.payload \o << ")" >>
      [] e.variant = "InvalidResponse" ->
           << "I", "n", "v", "a", "l", "i", "d", "R", "e", "s", "p", "o", "n",
              "s", "e", "(" >> \o e.payload \o << ")" >>
      [] e.variant = "DecodingError" ->
           << "D", "e", "c", "o", "d", "i", "n", "g", "E", "r", "r", "o", "r",
              "(" >> \o e.payload \o << ")" >>
      [] e.variant = "Other" ->
           << "O", "t", "h", "e", "r", "(" >> \o e.payload
      [] e.variant = "Json" ->
           << "J", "s", "o", "n", "E", "r", "r", "o", "r", "(" >>
               \o e.payload \o << ")" >>

\* the label each arm writes before the parenthesis
Label(v) ==
    CASE v = "Io" -> << "I", "o" >>
      [] v = "Http" -> << "H", "t", "t", "p" >>
      [] v = "Tls" -> << "T", "l", "s" >>
      [] v = "InvalidUrl" -> << "I", "n", "v", "a", "l", "i", "d", "U", "r", "l" >>
      [] v = "InvalidResponse" ->
           << "I", "n", "v", "a", "l", "i", "d", "R", "e", "s", "p", "o", "n",
              "s", "e" >>
      [] v = "DecodingError" ->
           << "D", "e", "c", "o", "d", "i", "n", "g", "E", "r", "r", "o", "r" >>
      [] v = "Other" -> << "O", "t", "h", "e", "r" >>
      [] v = "Json" -> << "J", "s", "o", "n", "E", "r", "r", "o", "r" >>

\* some HttpError exists; nothing has been formatted yet
InitDisplay ==
    /\ InitWith("UTF_8", << >>, NewDecoder("UTF_8"))
    /\ err \in HttpErrors
    /\ text = << >>

\* format!("{}", err): fmt writes the text of err's match arm
Fmt ==
    /\ text = << >>
    /\ text' = Display(err)
    /\ UNCHANGED << readerVars, err >>

NextDisplay == Fmt

SpecDisplay == InitDisplay /\ [][NextDisplay]_vars

\* ------------------------------------------------------------------ claims

\* C1: once eof is true it stays true, and every step taken from then on is
\* a read call that returns Ok(0) without invoking the decoder and without
\* filling or consuming the source.
C1_IdempotentEof ==
    [][eof => /\ eof'
              /\ pc' = "idle"
              /\ ret' = [kind |-> "ok", n |-> 0]
              /\ step'.op = "eofReturn"
              /\ decoder' = decoder
              /\ finalCalls' = finalCalls
              /\ decRead' = decRead
              /\ pos' = pos
              /\ avail' = avail]_vars

\* a read call made after eof was set has returned Ok(0)
C1_Witness == eof /\ pc = "idle" /\ step.op = "eofReturn" /\ ret.n = 0

\* C2: a read call with a non-empty buffer that returns Ok(0) has reached
\* the permanent end of the stream: the source is exhausted and eof is set
\* (the final flush reported input-exhausted).
C2_ZeroMeansEnd ==
    ReturnedZero => eof /\ pos = Len(input) /\ avail = 0

\* C3: reading a source that never fails until a call returns 0 yields the
\* same bytes as decoding the whole input in one piece, whatever the fills
\* and the (non-empty) output buffers were.
C3_ChunkingInvariance ==
    (ReturnedZero /\ fails = 0) => out = OneShot(charset, input)

\* C4 as stated: the decoder is invoked with is_final = true exactly once
\* over the reader's life (never twice, and once by the time eof is set).
C4_FinalExactlyOnce ==
    /\ finalCalls <= 1
    /\ eof => finalCalls = 1

\* C4 as amended: an invocation with is_final = true is made only in a read
\* call that finds the source empty while eof is unset, with an empty input;
\* it sets eof exactly when it reports input-exhausted, and eof is never set
\* without one, so the invocation is repeated call after call until it
\* reports input-exhausted and never made afterwards.
C4_FinalUntilExhausted ==
    [][/\ (finalCalls' # finalCalls \/ (Invoked' /\ step'.final)) =>
            /\ ~eof
            /\ pos = Len(input) /\ avail = 0
            /\ Invoked' /\ step'.final /\ step'.srcLen = 0
            /\ pc' # "loop"
            /\ eof' <=> step'.res = "InputEmpty"
       /\ eof' => finalCalls' >= 1]_vars

\* the final flush was issued twice and the second one ended the stream
C4_Witness ==
    eof /\ finalCalls = 2 /\ Invoked /\ step.final /\ step.res = "InputEmpty"

\* C5: read returns an error exactly when the fill of that call failed, and
\* the error is the source's; a call whose last step was a decoder
\* invocation, whatever the decoder did, returned no error.
C5_ErrorIffFillFails ==
    pc = "idle" =>
        /\ ret.kind = "err" <=> step.op = "fillErr"
        /\ ret.kind = "err" => ret.e = step.e
        /\ Invoked => ret.kind # "err"

\* a fill failed after part of the input was consumed, and read returned it
C5_Witness ==
    pc = "idle" /\ ret.kind = "err" /\ step.op = "fillErr" /\ pos > 0
      /\ ret.e = "Interrupted"

\* C6: a valid UTF-8 input drained through the UTF-8 reader with non-empty
\* buffers until a call returns 0, the source never failing, comes out
\* unchanged, the counts adding up to its length.
C6_Utf8RoundTrip ==
    (charset = "UTF_8" /\ ValidUtf8(input) /\ fails = 0 /\ ReturnedZero) =>
        out = input /\ count = Len(input)

\* C7: an input of ASCII and 0xC9 bytes drained through the windows-1252
\* reader with non-empty buffers until a call returns 0 yields one byte per
\* ASCII byte and C3 89 per 0xC9 byte.
C7_Windows1252Expansion ==
    (charset = "WINDOWS_1252" /\ AsciiOrC9(input) /\ fails = 0 /\ ReturnedZero) =>
        out = Expand1252(input)

\* C8: the source advances only in a step that invoked the decoder
\* non-finally on the peeked bytes, by exactly the read count it reported,
\* which is at most what was peeked; the rest stays buffered for the next
\* fill; the bytes consumed always equal the bytes the decoder reported.
C8_ConsumeFollowsDecoder ==
    [][/\ pos' # pos =>
            /\ Invoked' /\ ~step'.final
            /\ pos' = pos + step'.read
       /\ (Invoked' /\ ~step'.final /\ step'.res # "Panic") =>
            /\ step'.read <= step'.srcLen
            /\ pos' = pos + step'.read
            /\ avail' = step'.srcLen - step'.read
            /\ (avail > 0 => step'.srcLen = avail)
       /\ pos' = decRead']_vars

\* the decoder read part of what was peeked: the rest is still buffered
C8_Witness ==
    /\ Invoked /\ ~step.final /\ step.res = "OutputFull"
    /\ step.read > 0 /\ step.read < step.srcLen
    /\ avail = step.srcLen - step.read

\* C9: eof goes from false to true only in a step in which the source peek
\* was empty and the decoder, invoked with is_final = true, reported
\* input-exhausted.
C9_EofOnlyOnFinalInputEmpty ==
    [][(~eof /\ eof') =>
            /\ pos = Len(input) /\ avail = 0
            /\ Invoked' /\ step'.final /\ step'.srcLen = 0
            /\ step'.res = "InputEmpty"]_vars

\* eof was set by a final flush that followed one that reported output-full
C9_Witness ==
    /\ eof /\ Invoked /\ step.final /\ step.res = "InputEmpty"
    /\ finalCalls = 2 /\ step.wr > 0

\* C10: a final flush that reports output-full ends the call with the bytes
\* written so far and eof still false; the next call is not answered as
\* terminal, and on finding the source empty it invokes the decoder again
\* with an empty input and is_final = true.
C10_FinalOutputFullRetries ==
    [][/\ (Invoked' /\ step'.final /\ step'.res = "OutputFull") =>
            /\ pc' = "idle"
            /\ ret' = [kind |-> "ok", n |-> total_written + step'.wr]
            /\ ~eof /\ ~eof'
       /\ (pc = "idle" /\ Invoked /\ step.final /\ step.res = "OutputFull") =>
            step'.op = "begin"
       /\ (pc = "loop" /\ pos = Len(input) /\ avail = 0) =>
            \/ step'.op = "fillErr"
            \/ Invoked' /\ step'.final /\ step'.srcLen = 0]_vars

\* a final flush reported output-full in one call and again in the next,
\* this time after writing bytes
C10_Witness ==
    /\ pc = "idle" /\ ~eof
    /\ Invoked /\ step.final /\ step.res = "OutputFull"
    /\ finalCalls = 2 /\ ret.n > 0

\* C11: draining terminates: when the source never fails and the caller
\* keeps calling read with non-empty buffers, eof is eventually set.  In the
\* form a finite run refutes: no call with a non-empty buffer returns 0 with
\* eof unset and leaves the source position and the decoder as it found them,
\* because the same call would then repeat forever.
C11_DrainTerminates ==
    [][(/\ pc = "loop" /\ step.op = "begin" /\ cap >= 1 /\ fails = 0
        /\ pc' = "idle" /\ ret'.kind = "ok" /\ ret'.n = 0)
       => (eof' \/ pos' # pos \/ decoder' # decoder)]_vars

\* C12: within a call the loop goes back for another fill exactly when a
\* non-final decoder invocation reported InputEmpty (bytes written or not) and
\* stops exactly on OutputFull or after a final flush; so a successful return
\* directly follows an OutputFull result or a final flush in the same call,
\* or is the eof early return.
C12_LoopControl ==
    [][/\ (pc = "loop" /\ step'.op = "decode" /\ step'.res # "Panic") =>
            /\ pc' = "loop" <=> (~step'.final /\ step'.res = "InputEmpty")
            /\ pc' = "idle" <=> (step'.final \/ step'.res = "OutputFull")
       /\ (pc' = "idle" /\ ret'.kind = "ok") =>
            \/ pc = "idle" /\ eof /\ step'.op = "eofReturn"
            \/ /\ pc = "loop" /\ step'.op = "decode"
               /\ step'.final \/ step'.res = "OutputFull"]_vars

\* the loop went on after a non-final InputEmpty although the call had
\* already written bytes
C12_Witness ==
    /\ pc = "loop" /\ Invoked /\ ~step.final /\ step.res = "InputEmpty"
    /\ total_written > step.wr

\* C13: every decoder invocation with is_final = false has a non-empty input
\* and every one with is_final = true an empty input, and no invocation with
\* is_final = false follows one with is_final = true, whatever the source
\* does, one that shows an empty slice and later bytes again included.
C13_Discipline ==
    [][(pc = "loop" /\ step'.op = "decode") =>
          /\ ~step'.final => step'.srcLen >= 1
          /\ step'.final => step'.srcLen = 0
          /\ ~step'.final => finalCalls = 0]_vars

\* C13 (amended): the two input shapes hold for every source and the decoder
\* is never invoked once eof is set; an invocation with is_final = false
\* follows one with is_final = true only over a source that showed an empty
\* slice before its end.
C13_DisciplineUntilExhausted ==
    [][(pc = "loop" /\ step'.op = "decode") =>
          /\ ~step'.final => step'.srcLen >= 1
          /\ step'.final => step'.srcLen = 0
          /\ ~eof
          /\ (~step'.final /\ finalCalls >= 1) => emptied]_vars

\* a final flush that left eof unset was followed by a decode of new bytes
C13_Witness ==
    /\ Invoked /\ ~step.final /\ step.srcLen >= 1
    /\ finalCalls >= 1 /\ emptied /\ ~eof

\* C14: the count a successful read returns is the sum of the written counts
\* of the decoder invocations of that call and is at most the length of the
\* caller's buffer; every invocation is given exactly the not yet written
\* tail of the buffer, so what was written earlier in the call stays.
C14_CountAndTail ==
    [][/\ (pc = "loop" /\ step'.op = "decode") =>
            /\ Len(written) = total_written
            /\ step'.room = cap - total_written
            /\ step'.res # "Panic" =>
                 /\ step'.wr <= step'.room
                 /\ pc' = "loop" =>
                      /\ total_written' = total_written + step'.wr
                      /\ SubSeq(written', 1, total_written) = written
                 /\ pc' = "idle" =>
                      /\ ret' = [kind |-> "ok", n |-> total_written + step'.wr]
                      /\ ret'.n <= cap
                      /\ Len(out') = Len(out) + ret'.n
                      /\ SubSeq(out', 1, Len(out) + total_written) = out \o written
       /\ (pc = "idle" /\ pc' = "loop") => total_written' = 0 /\ written' = << >>
       /\ (pc = "idle" /\ pc' = "idle") => ret'.n = 0]_vars

\* a call returned the bytes of two decoder invocations, each of which wrote
C14_Witness ==
    /\ pc = "idle" /\ ret.kind = "ok" /\ Invoked
    /\ step.wr > 0 /\ ret.n > step.wr

\* C15: no decoded output is lost when the source fails: a read call that
\* returns an I/O error has consumed no source byte and written no output
\* byte in that call, so every consumed byte's output is counted by some
\* successful call.
C15_NothingLostOnError ==
    [][(pc = "loop" /\ pc' = "idle" /\ ret'.kind = "err") =>
          /\ total_written = 0
          /\ step.op = "begin"]_vars

\* C16: the loop of a read call ends on a finite source: an iteration that
\* goes back for another fill was a non-final decode of a non-empty input
\* that reported InputEmpty and consumed at least one source byte, so a call
\* makes at most (source bytes remaining at its entry) + 1 iterations.
C16_LoopBounded ==
    [][pc = "loop" =>
          /\ iters + 1 <= (Len(input) - entryPos) + 1
          /\ pc' = "loop" =>
               /\ step'.op = "decode" /\ ~step'.final
               /\ step'.res = "InputEmpty" /\ step'.srcLen >= 1
               /\ pos' >= pos + 1
               /\ iters' = iters + 1]_vars

\* the loop has gone round once per byte that remained at the entry of the
\* call, at least twice: the iteration to come is the last one possible
C16_Witness ==
    /\ pc = "loop" /\ iters >= 2
    /\ iters = Len(input) - entryPos

\* C17: for every HttpError variant the Display text is the label, an
\* opening parenthesis, the payload's text and a closing parenthesis.
C17_DisplayForm ==
    text # << >> =>
        text = Label(err.variant) \o << "(" >> \o err.payload \o << ")" >>

====
